---- MODULE Spec2Model ----
(***************************************************************************)
(* A model of the JSON tokenizer (internal/lexer/lexer.go, which holds two *)
(* definitions of the Lexer, here "version 1" = lines 1-370 and            *)
(* "version 2" = lines 372-601) and of Parser.parseObject.                 *)
(*                                                                         *)
(* Characters are their code points (a Go rune or byte); 0 is the value    *)
(* the lexers use for end of input.  Go strings are sequences of code      *)
(* points, indexed from 1 here and from 0 in the source.                   *)
(***************************************************************************)
EXTENDS Integers, Sequences, FiniteSets, TLC

VARIABLES
    ver,        \* which definition of the Lexer runs: 1 or 2
    l,          \* the Lexer struct
    tokens,     \* Tokenize's local slice of tokens
    sb,         \* readString's strBuilder
    pc,         \* where Tokenize is: "main", "str" or "done"
    err,        \* the error Tokenize returned, or NoErr
    p,          \* the Parser struct: tokens, current
    frames,     \* the stack of running parseObject calls
    ppc,        \* where the innermost parseObject is
    pret        \* what the outermost parseObject returned

lexvars == <<ver, l, tokens, sb, pc, err>>
parvars == <<p, frames, ppc, pret>>
vars == <<ver, l, tokens, sb, pc, err, p, frames, ppc, pret>>

----------------------------------------------------------------------------
(* Characters *)

OrdTable ==
    ("{" :> 123) @@ ("}" :> 125) @@ ("[" :> 91) @@ ("]" :> 93) @@
    (":" :> 58) @@ ("," :> 44) @@ ("\"" :> 34) @@ ("\\" :> 92) @@
    ("/" :> 47) @@ ("-" :> 45) @@ ("+" :> 43) @@ ("." :> 46) @@
    (" " :> 32) @@ ("TAB" :> 9) @@ ("LF" :> 10) @@ ("VT" :> 11) @@
    ("FF" :> 12) @@ ("CR" :> 13) @@ ("BS" :> 8) @@ ("_" :> 95) @@
    ("@" :> 64) @@
    ("0" :> 48) @@ ("1" :> 49) @@ ("2" :> 50) @@ ("3" :> 51) @@
    ("4" :> 52) @@ ("5" :> 53) @@ ("6" :> 54) @@ ("7" :> 55) @@
    ("8" :> 56) @@ ("9" :> 57) @@
    ("A" :> 65) @@ ("C" :> 67) @@ ("D" :> 68) @@ ("E" :> 69) @@
    ("F" :> 70) @@ ("Z" :> 90) @@
    ("a" :> 97) @@ ("b" :> 98) @@ ("e" :> 101) @@ ("f" :> 102) @@
    ("l" :> 108) @@ ("n" :> 110) @@ ("r" :> 114) @@ ("s" :> 115) @@
    ("t" :> 116) @@ ("u" :> 117) @@ ("x" :> 120) @@ ("z" :> 122)

Ord(c) == OrdTable[c]

\* A Go string literal, written as a sequence of one-character names.
Str(s) == [i \in DOMAIN s |-> Ord(s[i])]

NoErr == [msg |-> "nil"]

----------------------------------------------------------------------------
(* Token types: lexer.go lines 15-28 *)

TokenLeftBrace == "{"
TokenRightBrace == "}"
TokenLeftBracket == "["
TokenRightBracket == "]"
TokenColon == ":"
TokenComma == ","
TokenString == "STRING"
TokenNumber == "NUMBER"
TokenTrue == "TRUE"
TokenFalse == "FALSE"
TokenNull == "NULL"
TokenEOF == "EOF"

\* Token{Type, Literal, Line, Column} of version 1
Token(type, literal, line, column) ==
    [Type |-> type, Literal |-> literal, Line |-> line, Column |-> column]

\* Token{Type, Literal} of version 2
Token2(type, literal) == [Type |-> type, Literal |-> literal]

----------------------------------------------------------------------------
(* Go library functions, on the characters of the model (all below 128) *)

\* unicode.IsSpace: '\t', '\n', '\v', '\f', '\r', ' '
IsSpace(r) == r \in {9, 10, 11, 12, 13, 32}

\* unicode.IsDigit
IsDigit(r) == r >= Ord("0") /\ r <= Ord("9")

\* utf8.DecodeLastRuneInString(s): the LAST rune of s and its width
DecodeLastRuneInString(s) == [r |-> s[Len(s)], size |-> 1]

\* the value fmt.Sscanf(hex, "%04x", &v) stores, hex being four hex digits
HexDigitVal(c) ==
    IF c >= Ord("0") /\ c <= Ord("9") THEN c - Ord("0")
    ELSE IF c >= Ord("a") /\ c <= Ord("f") THEN c - Ord("a") + 10
    ELSE c - Ord("A") + 10

Sscanf04x(hex) ==
    ((HexDigitVal(hex[1]) * 16 + HexDigitVal(hex[2])) * 16
        + HexDigitVal(hex[3])) * 16 + HexDigitVal(hex[4])

RuneError == 65533

\* utf16.DecodeRune(r1, r2)
DecodeRune(r1, r2) ==
    IF r1 >= 55296 /\ r1 < 56320 /\ r2 >= 56320 /\ r2 < 57344
    THEN (r1 - 55296) * 1024 + (r2 - 56320) + 65536
    ELSE RuneError

\* strings.Builder.WriteRune: a surrogate or out-of-range rune is written as
\* U+FFFD
WriteRune(b, r) ==
    Append(b, IF (r >= 55296 /\ r < 57344) \/ r > 1114111 \/ r < 0
              THEN RuneError ELSE r)

\* strings.Builder.WriteByte
WriteByte(b, c) == Append(b, c)

----------------------------------------------------------------------------
(* Version 1 of the Lexer: lexer.go lines 39-370 *)

\* readChar, lines 60-76.  The rune read is the LAST one of the rest of the
\* input, and readPosition moves by its width and then by one more.
readChar(L) ==
    LET L1 == IF L.readPosition >= Len(L.input)
              THEN [L EXCEPT !.ch = 0]
              ELSE LET d == DecodeLastRuneInString(
                                SubSeq(L.input, L.readPosition + 1, Len(L.input)))
                       rp == L.readPosition + d.size
                   IN [L EXCEPT !.ch = d.r,
                                !.readPosition = rp,
                                !.position = rp,
                                !.column = IF d.r = Ord("LF") THEN 0 ELSE @ + 1,
                                !.line = IF d.r = Ord("LF") THEN @ + 1 ELSE @]
    IN [L1 EXCEPT !.position = L1.readPosition,
                  !.readPosition = L1.readPosition + 1]

\* NewLexer, lines 49-57
NewLexer(input) ==
    readChar([input |-> input, position |-> 0, readPosition |-> 0, ch |-> 0,
              line |-> 1, column |-> 0])

\* skipWhitespace, lines 88-92
RECURSIVE skipWhitespace(_)
skipWhitespace(L) == IF IsSpace(L.ch) THEN skipWhitespace(readChar(L)) ELSE L

\* peekKeyWord, lines 170-177: compares input[readPosition:end], the bytes
\* AFTER the current character
peekKeyWord(L, expected) ==
    LET end == L.readPosition + Len(expected)
    IN IF end > Len(L.input) THEN FALSE
       ELSE SubSeq(L.input, L.readPosition + 1, end) = expected

\* advanceBy, lines 180-184
RECURSIVE advanceBy(_, _)
advanceBy(L, n) == IF n = 0 THEN L ELSE advanceBy(readChar(L), n - 1)

\* isStartOfNumber, lines 187-189
isStartOfNumber(r) == r = Ord("-") \/ IsDigit(r)

\* consumeMinus, lines 248-253
consumeMinus(L) == IF L.ch = Ord("-") THEN readChar(L) ELSE L

\* the loops "for unicode.IsDigit(l.ch) { WriteRune; readChar }", lines
\* 219-222 and 238-241
RECURSIVE readDigits(_, _)
readDigits(L, nb) ==
    IF IsDigit(L.ch) THEN readDigits(readChar(L), WriteRune(nb, L.ch))
    ELSE [l |-> L, nb |-> nb]

\* readNumber lines 225-244: the exponent and the return
readNumberExponent(L, nb) ==
    IF L.ch = Ord("e") \/ L.ch = Ord("E")
    THEN LET nb1 == WriteRune(nb, L.ch)
             L1 == readChar(L)
             sign == L1.ch = Ord("+") \/ L1.ch = Ord("-")
             nb2 == IF sign THEN WriteRune(nb1, L1.ch) ELSE nb1
             L2 == IF sign THEN readChar(L1) ELSE L1
         IN IF ~IsDigit(L2.ch)
            THEN [num |-> <<>>, l |-> L2,
                  err |-> "invalid number format: expected digit after exponent indicater"]
            ELSE LET d == readDigits(L2, nb2)
                 IN [num |-> d.nb, l |-> d.l, err |-> "nil"]
    ELSE [num |-> nb, l |-> L, err |-> "nil"]

\* readNumber lines 211-223: the fraction
readNumberFraction(L, nb) ==
    IF L.ch = Ord(".")
    THEN LET nb1 == WriteRune(nb, L.ch)
             L1 == readChar(L)
         IN IF ~IsDigit(L1.ch)
            THEN [num |-> <<>>, l |-> L1,
                  err |-> "invalid number format: expected digit after '.'"]
            ELSE LET d == readDigits(L1, nb1)
                 IN readNumberExponent(d.l, d.nb)
    ELSE readNumberExponent(L, nb)

\* readNumber, lines 192-245.  numBuilder starts empty.  No statement reads
\* the digits of the integer part.
readNumber(L) ==
    LET L1 == consumeMinus(L)
        minus == L1.ch = Ord("-")
        nb == IF minus THEN WriteRune(<<>>, L1.ch) ELSE <<>>
        L2 == IF minus THEN readChar(L1) ELSE L1
    IN IF ~IsDigit(L2.ch)
       THEN [num |-> <<>>, l |-> L2,
             err |-> "invalid number format: expected digit after '-'"]
       ELSE readNumberFraction(L2, nb)

\* lines 255-261
isHighSurrogate(r) == r >= 55296 /\ r <= 56319

isLowSurrogate(r) == r >= 56320 /\ r <= 57343

\* isHexDigit, lines 368-370 (and 554-556)
isHexDigit(ch) ==
    \/ (Ord("0") <= ch /\ ch <= Ord("9"))
    \/ (Ord("a") <= ch /\ ch <= Ord("f"))
    \/ (Ord("A") <= ch /\ ch <= Ord("F"))

\* readUnicode's loop, lines 351-357: i iterations are still to run
RECURSIVE readUnicodeLoop(_, _, _)
readUnicodeLoop(L, hex, i) ==
    IF i = 0 THEN [ok |-> TRUE, hex |-> hex, l |-> L]
    ELSE IF ~isHexDigit(L.ch) THEN [ok |-> FALSE, hex |-> hex, l |-> L]
    ELSE readUnicodeLoop(readChar(L), Append(hex, L.ch), i - 1)

\* readUnicode, lines 349-366.  It starts at the current character, which
\* is the 'u' when readString calls it at line 299.
readUnicode(L) ==
    LET r == readUnicodeLoop(L, <<>>, 4)
    IN IF ~r.ok
       THEN [ok |-> FALSE, val |-> 0, l |-> r.l,
             err |-> [msg |-> "invalid Unicode escape sequence", hex |-> r.hex]]
       ELSE [ok |-> TRUE, val |-> Sscanf04x(r.hex), l |-> r.l, err |-> NoErr]

\* A run of Tokenize: the Lexer, the tokens so far, readString's builder,
\* the place in the code, and the error returned.
TokState(L, toks, b, at, e) ==
    [l |-> L, tokens |-> toks, sb |-> b, pc |-> at, err |-> e]

\* Tokenize returns (nil, e)
Fail(S, L, e) == TokState(L, <<>>, <<>>, "done", e)

\* lines 159-160: the token is appended and the next character read
AppendAndRead(S, L, tok) ==
    TokState(readChar(L), Append(S.tokens, tok), S.sb, "main", NoErr)

\* the keyword cases of Tokenize, lines 126-146
TokenizeKeyWord(S, L, word, type, first) ==
    IF peekKeyWord(L, word)
    THEN AppendAndRead(S, advanceBy(L, Len(word)),
                       Token(type, word, L.line, L.column))
    ELSE Fail(S, L, [msg |-> "invalid token starting with", char |-> first,
                     line |-> L.line, column |-> L.column])

\* The default case of Tokenize, lines 147-157.  Line 155 passes l.ch,
\* l.line, l.column to the verbs "line %d, column %d, ... character: %c" in
\* this order.
TokenizeDefault(S, L) ==
    IF isStartOfNumber(L.ch)
    THEN LET n == readNumber(L)
         IN IF n.err # "nil"
            THEN Fail(S, n.l, [msg |-> n.err, line |-> n.l.line,
                               column |-> n.l.column])
            ELSE AppendAndRead(S, n.l,
                     Token(TokenNumber, n.num, n.l.line, n.l.column))
    ELSE Fail(S, L, [msg |-> "unexpected character", line |-> L.ch,
                     column |-> L.line, char |-> L.column])

\* One pass of Tokenize's loop, lines 98-161, and the return at lines
\* 163-166.  The string case runs readString up to its loop (line 271).
TokenizeIter(S) ==
    IF S.l.ch = 0
    THEN TokState(S.l,
                  Append(S.tokens, Token(TokenEOF, <<>>, S.l.line, S.l.column)),
                  S.sb, "done", NoErr)
    ELSE
    LET L == skipWhitespace(S.l)
        c == L.ch
        punct(type) == AppendAndRead(S, L, Token(type, <<c>>, L.line, L.column))
    IN CASE c = Ord("{") -> punct(TokenLeftBrace)
         [] c = Ord("}") -> punct(TokenRightBrace)
         [] c = Ord("[") -> punct(TokenLeftBracket)
         [] c = Ord("]") -> punct(TokenRightBracket)
         [] c = Ord(":") -> punct(TokenColon)
         [] c = Ord(",") -> punct(TokenComma)
         [] c = Ord("\"") -> TokState(readChar(L), S.tokens, <<>>, "str", NoErr)
         [] c = Ord("t") ->
                TokenizeKeyWord(S, L, Str(<<"t", "r", "u", "e">>), TokenTrue, c)
         [] c = Ord("f") ->
                TokenizeKeyWord(S, L, Str(<<"f", "a", "l", "s", "e">>), TokenFalse, c)
         [] c = Ord("n") ->
                TokenizeKeyWord(S, L, Str(<<"n", "u", "l", "l">>), TokenNull, c)
         [] OTHER -> TokenizeDefault(S, L)

\* what a case of readString's escape switch leaves: the Lexer, the
\* builder, and the error it returned, if any
Escaped(L, b) == [ok |-> TRUE, l |-> L, sb |-> b, err |-> NoErr]

EscapeError(L, b, e) == [ok |-> FALSE, l |-> L, sb |-> b, err |-> e]

\* lines 316-331: low is what readUnicode returned for the second escape
readStringLowSurrogate(high, low, b) ==
    IF ~low.ok THEN EscapeError(low.l, b, low.err)
    ELSE IF ~isLowSurrogate(low.val)
    THEN EscapeError(low.l, b, [msg |-> "invalid low surrogate", low |-> low.val])
    ELSE IF DecodeRune(high, low.val) = RuneError
    THEN EscapeError(low.l, b, [msg |-> "invalid surrogate pair",
                                high |-> high, low |-> low.val])
    ELSE Escaped(low.l, WriteRune(b, DecodeRune(high, low.val)))

\* lines 310-314: L is the Lexer after "l.readChar() // Skip the backslash"
readStringSkipU(high, L, b) ==
    IF L.ch # Ord("u")
    THEN EscapeError(L, b, [msg |-> "expected 'u' after '\\'", char |-> L.ch])
    ELSE readStringLowSurrogate(high, readUnicode(readChar(L)), b)

\* lines 300-335: u is what readUnicode returned at line 299
readStringRune(u, b) ==
    IF ~u.ok THEN EscapeError(u.l, b, u.err)
    ELSE IF isHighSurrogate(u.val)
    THEN IF u.l.ch # Ord("\\")
         THEN EscapeError(u.l, b, [msg |-> "expected '\\' after high surrogate",
                                   char |-> u.l.ch])
         ELSE readStringSkipU(u.val, readChar(u.l), b)
    ELSE Escaped(u.l, WriteRune(b, u.val))

\* readString's case 'u', lines 297-335
readStringUnicode(L, b) == readStringRune(readUnicode(L), b)

\* readString's escape switch, lines 279-338: L is the Lexer after the
\* backslash was passed
readStringEscape(L, b) ==
    LET c == L.ch
        wrote(x) == Escaped(L, WriteByte(b, x))
    IN CASE c = Ord("\"") -> wrote(Ord("\""))
         [] c = Ord("\\") -> wrote(Ord("\\"))
         [] c = Ord("/") -> wrote(Ord("/"))
         [] c = Ord("b") -> wrote(Ord("BS"))
         [] c = Ord("f") -> wrote(Ord("FF"))
         [] c = Ord("n") -> wrote(Ord("LF"))
         [] c = Ord("r") -> wrote(Ord("CR"))
         [] c = Ord("t") -> wrote(Ord("TAB"))
         [] c = Ord("u") -> readStringUnicode(L, b)
         [] OTHER -> EscapeError(L, b,
                        [msg |-> "unexpected character in string escape",
                         char |-> c])

\* One pass of readString's loop, lines 273-346; on its return Tokenize
\* appends the string token and continues (lines 119-125).
readStringIter(S) ==
    LET L == S.l
    IN CASE L.ch = Ord("\"") ->
              LET L1 == readChar(L)
              IN TokState(L1,
                     Append(S.tokens,
                            Token(TokenString, S.sb, L1.line, L1.column)),
                     <<>>, "main", NoErr)
         [] L.ch = Ord("\\") ->
              LET e == readStringEscape(readChar(L), S.sb)
              IN IF e.ok
                 THEN TokState(readChar(e.l), S.tokens, e.sb, "str", NoErr)
                 ELSE Fail(S, e.l, e.err)
         [] L.ch = 0 -> Fail(S, L, [msg |-> "unterminated string"])
         [] OTHER ->
              TokState(readChar(L), S.tokens, WriteByte(S.sb, L.ch), "str", NoErr)

----------------------------------------------------------------------------
(* Version 2 of the Lexer: lexer.go lines 399-601 *)

\* readChar, lines 412-420
readChar2(L) ==
    LET c == IF L.readPosition >= Len(L.input) THEN 0
             ELSE L.input[L.readPosition + 1]
    IN [L EXCEPT !.ch = c,
                 !.position = L.readPosition,
                 !.readPosition = L.readPosition + 1]

\* NewLexer, lines 406-410
NewLexer2(input) ==
    readChar2([input |-> input, position |-> 0, readPosition |-> 0, ch |-> 0])

\* isWhiteSpace, lines 482-484
isWhiteSpace(ch) ==
    ch = Ord(" ") \/ ch = Ord("TAB") \/ ch = Ord("LF") \/ ch = Ord("CR")

\* skipWhiteSpace, lines 476-480
RECURSIVE skipWhiteSpace(_)
skipWhiteSpace(L) ==
    IF isWhiteSpace(L.ch) THEN skipWhiteSpace(readChar2(L)) ELSE L

\* isLetter, lines 558-560
isLetter(ch) ==
    \/ (Ord("a") <= ch /\ ch <= Ord("z"))
    \/ (Ord("A") <= ch /\ ch <= Ord("Z"))
    \/ ch = Ord("_")

\* isDigit, lines 562-564
isDigit(ch) == Ord("0") <= ch /\ ch <= Ord("9")

\* the loops "for isDigit(l.ch) { l.readChar() }", lines 585-587, 594-596
RECURSIVE skipDigits(_)
skipDigits(L) == IF isDigit(L.ch) THEN skipDigits(readChar2(L)) ELSE L

\* the loop of readLiteral, lines 568-570
RECURSIVE skipLiteral(_)
skipLiteral(L) ==
    IF isLetter(L.ch) \/ isDigit(L.ch) THEN skipLiteral(readChar2(L)) ELSE L

\* readLiteral, lines 566-574: input[position:l.position]
readLiteral(L) ==
    LET L1 == skipLiteral(L)
    IN [lit |-> SubSeq(L.input, L.position + 1, L1.position), l |-> L1]

\* readNumber, lines 576-601
readNumber2(L) ==
    LET L1 == IF L.ch = Ord("-") THEN readChar2(L) ELSE L
        L2 == skipDigits(L1)
        L3 == IF L2.ch = Ord(".") THEN skipDigits(readChar2(L2)) ELSE L2
    IN [num |-> SubSeq(L.input, L.position + 1, L3.position), l |-> L3]

\* readUnicode's loop, lines 537-543: i iterations are still to run
RECURSIVE readUnicodeLoop2(_, _, _)
readUnicodeLoop2(L, hex, i) ==
    IF i = 0 THEN [ok |-> TRUE, hex |-> hex, l |-> L]
    ELSE LET L1 == readChar2(L)
         IN IF ~isHexDigit(L1.ch) THEN [ok |-> FALSE, hex |-> hex, l |-> L1]
            ELSE readUnicodeLoop2(L1, Append(hex, L1.ch), i - 1)

\* readUnicode, lines 535-552
readUnicode2(L) ==
    LET r == readUnicodeLoop2(L, <<>>, 4)
    IN IF ~r.ok
       THEN [ok |-> FALSE, val |-> 0, l |-> r.l,
             err |-> [msg |-> "invalid Unicode escpae sequence"]]
       ELSE [ok |-> TRUE, val |-> Sscanf04x(r.hex), l |-> r.l, err |-> NoErr]

\* NewUnexpectedCharacterError(ch), called at lines 461, 467 and 524: the
\* one thing it is given is the character
NewUnexpectedCharacterError(ch) == [msg |-> "unexpected character", char |-> ch]

Fail2(S, L, e) == TokState(L, <<>>, <<>>, "done", e)

\* lines 471-472
AppendAndRead2(S, L, tok) ==
    TokState(readChar2(L), Append(S.tokens, tok), S.sb, "main", NoErr)

\* the default case of Tokenize, lines 450-468
TokenizeDefault2(S, L) ==
    IF isLetter(L.ch)
    THEN LET r == readLiteral(L)
         IN CASE r.lit = Str(<<"t", "r", "u", "e">>) ->
                    AppendAndRead2(S, r.l, Token2(TokenTrue, r.lit))
              [] r.lit = Str(<<"f", "a", "l", "s", "e">>) ->
                    AppendAndRead2(S, r.l, Token2(TokenFalse, r.lit))
              [] r.lit = Str(<<"n", "u", "l", "l">>) ->
                    AppendAndRead2(S, r.l, Token2(TokenNull, r.lit))
              [] OTHER -> Fail2(S, r.l, NewUnexpectedCharacterError(r.l.ch))
    ELSE IF isDigit(L.ch) \/ L.ch = Ord("-")
    THEN LET n == readNumber2(L)
         IN AppendAndRead2(S, n.l, Token2(TokenNumber, n.num))
    ELSE Fail2(S, L, NewUnexpectedCharacterError(L.ch))

\* One pass of Tokenize's loop, lines 425-473.  The string case runs
\* readString up to its loop (line 490).
TokenizeIter2(S) ==
    LET L == skipWhiteSpace(S.l)
        c == L.ch
        punct(type) == AppendAndRead2(S, L, Token2(type, <<c>>))
    IN CASE c = Ord("{") -> punct(TokenLeftBrace)
         [] c = Ord("}") -> punct(TokenRightBrace)
         [] c = Ord(":") -> punct(TokenColon)
         [] c = Ord(",") -> punct(TokenComma)
         [] c = Ord("\"") -> TokState(readChar2(L), S.tokens, <<>>, "str", NoErr)
         [] c = 0 ->
              TokState(L, Append(S.tokens, Token2(TokenEOF, <<>>)), S.sb,
                       "done", NoErr)
         [] OTHER -> TokenizeDefault2(S, L)

\* readString's escape switch, lines 498-525: L is the Lexer after the
\* backslash was passed
\* lines 518-522: u is what readUnicode returned
readStringRune2(u, b) ==
    IF ~u.ok THEN EscapeError(u.l, b, u.err)
    ELSE Escaped(u.l, WriteByte(b, u.val % 256))

readStringEscape2(L, b) ==
    LET c == L.ch
        wrote(x) == Escaped(L, WriteByte(b, x))
    IN CASE c = Ord("\"") -> wrote(Ord("\""))
         [] c = Ord("\\") -> wrote(Ord("\\"))
         [] c = Ord("/") -> wrote(Ord("/"))
         [] c = Ord("b") -> wrote(Ord("BS"))
         [] c = Ord("f") -> wrote(Ord("FF"))
         [] c = Ord("n") -> wrote(Ord("LF"))
         [] c = Ord("r") -> wrote(Ord("CR"))
         [] c = Ord("t") -> wrote(Ord("TAB"))
         [] c = Ord("u") -> readStringRune2(readUnicode2(L), b)
         [] OTHER -> EscapeError(L, b, NewUnexpectedCharacterError(c))

\* readString's loop with the readChar of line 531 left out of the default
\* case
readStringIter2_NoAdvance(S) ==
    LET L == S.l
    IN CASE L.ch = Ord("\"") ->
              TokState(readChar2(L), Append(S.tokens, Token2(TokenString, S.sb)),
                       <<>>, "main", NoErr)
         [] L.ch = Ord("\\") ->
              LET e == readStringEscape2(readChar2(L), S.sb)
              IN IF e.ok
                 THEN TokState(readChar2(e.l), S.tokens, e.sb, "str", NoErr)
                 ELSE Fail2(S, e.l, e.err)
         [] L.ch = 0 -> Fail2(S, L, [msg |-> "unterminated string"])
         [] OTHER -> TokState(L, S.tokens, S.sb, "str", NoErr)

\* One pass of readString's loop, lines 492-532; on its return Tokenize
\* appends the string token and continues (lines 439-445).
readStringIter2(S) ==
    LET L == S.l
    IN CASE L.ch = Ord("\"") ->
              TokState(readChar2(L), Append(S.tokens, Token2(TokenString, S.sb)),
                       <<>>, "main", NoErr)
         [] L.ch = Ord("\\") ->
              LET e == readStringEscape2(readChar2(L), S.sb)
              IN IF e.ok
                 THEN TokState(readChar2(e.l), S.tokens, e.sb, "str", NoErr)
                 ELSE Fail2(S, e.l, e.err)
         [] L.ch = 0 -> Fail2(S, L, [msg |-> "unterminated string"])
         [] OTHER ->
              TokState(readChar2(L), S.tokens, WriteByte(S.sb, L.ch), "str", NoErr)

----------------------------------------------------------------------------
(* The inputs Tokenize is run on *)

MaxLen == 4
MaxNumLen == 5
MaxKwPieces == 2
MaxStrPieces == 2

SeqsUpTo(A, n) == UNION {[1..k -> A] : k \in 0..n}

RECURSIVE PieceSeqs(_, _)
PieceSeqs(P, n) ==
    IF n = 0 THEN {<<>>}
    ELSE LET prev == PieceSeqs(P, n - 1)
         IN prev \cup {x \o q : x \in prev, q \in P}

\* punctuation, a quote, a digit, white space, a character that starts no token
GenChars ==
    {Ord("{"), Ord("}"), Ord("["), Ord(","), Ord("\""), Ord("1"), Ord(" "),
     Ord("LF"), Ord("@")}

NumChars == {Ord("-"), Ord("1"), Ord("."), Ord("e"), Ord("+")}

KwPieces ==
    {Str(<<"t", "r", "u", "e">>), Str(<<"f", "a", "l", "s", "e">>),
     Str(<<"n", "u", "l", "l">>), Str(<<"t", "r", "u">>), Str(<<"x">>),
     Str(<<"l">>), Str(<<"1">>), Str(<<" ">>), Str(<<"}">>), Str(<<"t">>)}

HighEsc == Str(<<"\\", "u", "D", "8", "0", "1">>)
LowEsc == Str(<<"\\", "u", "D", "C", "0", "2">>)

StrPieces ==
    {HighEsc, LowEsc, Str(<<"\\", "u", "0", "0", "4", "1">>), Str(<<"a">>),
     Str(<<"\\", "n">>), Str(<<"\\", "x">>)}

StrInputs ==
    {Str(<<"\"">>) \o body \o close :
        body \in PieceSeqs(StrPieces, MaxStrPieces),
        close \in {<<>>, Str(<<"\"">>)}}

Inputs ==
    SeqsUpTo(GenChars, MaxLen) \cup SeqsUpTo(NumChars, MaxNumLen)
        \cup PieceSeqs(KwPieces, MaxKwPieces) \cup StrInputs

----------------------------------------------------------------------------
(* Tokenize as a state machine *)

State == TokState(l, tokens, sb, pc, err)

Become(S) ==
    /\ l' = S.l
    /\ tokens' = S.tokens
    /\ sb' = S.sb
    /\ pc' = S.pc
    /\ err' = S.err

ParserIdle ==
    /\ p = [tokens |-> <<>>, current |-> 0]
    /\ frames = <<>>
    /\ ppc = "idle"
    /\ pret = [ok |-> FALSE, obj |-> <<>>]

\* no Lexer made yet
Init ==
    /\ ver \in {1, 2}
    /\ l = [input |-> <<>>, position |-> 0, readPosition |-> 0, ch |-> 0]
    /\ tokens = <<>>
    /\ sb = <<>>
    /\ pc = "new"
    /\ err = NoErr
    /\ ParserIdle

\* NewLexer(input), for an input of the caller's choice; Tokenize is called
\* next
\* the Lexers NewLexer makes of the inputs
NewLexers == {NewLexer(in) : in \in Inputs}

NewLexers2 == {NewLexer2(in) : in \in Inputs}

New ==
    /\ pc = "new"
    /\ l' \in IF ver = 1 THEN NewLexers ELSE NewLexers2
    /\ pc' = "main"
    /\ UNCHANGED <<ver, tokens, sb, err, p, frames, ppc, pret>>

Tokenize ==
    /\ ver = 1 /\ pc = "main"
    /\ Become(TokenizeIter(State))
    /\ UNCHANGED <<ver, p, frames, ppc, pret>>

ReadString ==
    /\ ver = 1 /\ pc = "str"
    /\ Become(readStringIter(State))
    /\ UNCHANGED <<ver, p, frames, ppc, pret>>

Tokenize2 ==
    /\ ver = 2 /\ pc = "main"
    /\ Become(TokenizeIter2(State))
    /\ UNCHANGED <<ver, p, frames, ppc, pret>>

ReadString2 ==
    /\ ver = 2 /\ pc = "str"
    /\ Become(readStringIter2(State))
    /\ UNCHANGED <<ver, p, frames, ppc, pret>>

Next == New \/ Tokenize \/ ReadString \/ Tokenize2 \/ ReadString2

Spec == Init /\ [][Next]_vars

\* Tokenize as a function of the input: the state at its return
Step(S, v) ==
    IF v = 1
    THEN (IF S.pc = "main" THEN TokenizeIter(S) ELSE readStringIter(S))
    ELSE (IF S.pc = "main" THEN TokenizeIter2(S) ELSE readStringIter2(S))

RECURSIVE Run(_, _)
Run(S, v) == IF S.pc = "done" THEN S ELSE Run(Step(S, v), v)

TokenizeOf(input, v) ==
    Run(TokState(IF v = 1 THEN NewLexer(input) ELSE NewLexer2(input),
                 <<>>, <<>>, "main", NoErr), v)

\* a pass of a loop of Tokenize
LexStep == Tokenize \/ ReadString \/ Tokenize2 \/ ReadString2

\* ENABLED <<LexStep>>_vars as a predicate of the state: Tokenize is running
\* and the pass it is about to make changes the state
LexStepEnabled == pc \in {"main", "str"} /\ Step(State, ver) # State

\* WF_vars(LexStep) with its ENABLED written as LexStepEnabled: a running
\* Tokenize is never left for ever without making its next pass
LexStepFair == []<>(~LexStepEnabled) \/ []<><<LexStep>>_vars

\* The caller makes its Lexer and calls Tokenize, and Tokenize, once called,
\* is run on: Go runs the goroutine that called it
FairSpec == Spec /\ WF_vars(New) /\ LexStepFair

----------------------------------------------------------------------------
(* Parser.parseObject: src/unnamed/part_000 *)

\* The token sequence has at most MaxTokens tokens and parseObject calls
\* nest at most MaxDepth deep.
MaxTokens == 10
MaxDepth == 2

\* the tokens a sequence is made of (the parser reads Type and Literal)
ParserTokens ==
    {Token2(TokenLeftBrace, Str(<<"{">>)), Token2(TokenRightBrace, Str(<<"}">>)),
     Token2(TokenColon, Str(<<":">>)), Token2(TokenComma, Str(<<",">>)),
     Token2(TokenString, Str(<<"a">>)), Token2(TokenString, Str(<<"b">>)),
     Token2(TokenNumber, Str(<<"1">>)), Token2(TokenNumber, Str(<<"2">>)),
     Token2(TokenEOF, <<>>)}

\* The tokens that may stand at place n of the sequence: the parser is
\* given a sequence whose token n is fixed when the parser first reaches it,
\* and the sequence ends with its end-of-input token.
TokensAt(n) ==
    IF n >= MaxTokens THEN {Token2(TokenEOF, <<>>)} ELSE ParserTokens

\* p.peek(): the token at p.current
peek(P) == P.tokens[P.current + 1]

\* p.peekTypeIs(t)
peekTypeIs(P, t) == peek(P).Type = t

\* p.expectCurrent(t), p.expectedCurrent(t): a test that consumes nothing
expectCurrent(P, t) == peek(P).Type = t

\* p.nextToken(): the cursor moves to the next token, which is t
nextToken(P, t) ==
    [tokens |-> IF P.current + 2 > Len(P.tokens) THEN Append(P.tokens, t)
                ELSE P.tokens,
     current |-> P.current + 1]

\* lexer.NewUnexpectedTokenError(found, expected)
NewUnexpectedTokenError(found, expected) ==
    [ok |-> FALSE, obj |-> <<>>, found |-> found.Type, expected |-> expected]

\* ast.Object{}: no pairs
EmptyPairs == <<>>

\* an insertion that keeps the value a key already has
PairsInsert_KeepFirst(pairs, key, value) ==
    [k \in DOMAIN pairs \cup {key} |->
        IF k \in DOMAIN pairs THEN pairs[k] ELSE value]

\* line 40: obj.Pairs[key] = value
PairsInsert(pairs, key, value) ==
    [k \in DOMAIN pairs \cup {key} |-> IF k = key THEN value ELSE pairs[k]]

\* the frame of a parseObject call: its obj and its local key
Frame(pairs, key) == [pairs |-> pairs, key |-> key]

Top == frames[Len(frames)]

SetTop(f) == [frames EXCEPT ![Len(frames)] = f]

\* parseValue's value for a token that is a value by itself
ScalarValue(tok) ==
    [kind |-> CASE tok.Type = TokenString -> "String"
                [] tok.Type = TokenNumber -> "Number"
                [] tok.Type \in {TokenTrue, TokenFalse} -> "Boolean"
                [] OTHER -> "Null",
     lit |-> tok.Literal]

IsScalar(tok) ==
    tok.Type \in {TokenString, TokenNumber, TokenTrue, TokenFalse, TokenNull}

ObjectValue(pairs) == [kind |-> "Object", pairs |-> pairs]

LexerIdle ==
    /\ ver = 1
    /\ l = NewLexer(<<>>)
    /\ tokens = <<>>
    /\ sb = <<>>
    /\ pc = "idle"
    /\ err = NoErr

\* a Parser on the first token of its sequence, parseObject about to run
ParserInit ==
    /\ LexerIdle
    /\ \E t \in TokensAt(1) : p = [tokens |-> <<t>>, current |-> 0]
    /\ frames = <<>>
    /\ ppc = "enter"
    /\ pret = [ok |-> FALSE, obj |-> <<>>]

\* parseObject returns (nil, err): so does every parseObject that called it
\* (lines 36-38)
ReturnError(e) ==
    /\ pret' = e
    /\ frames' = <<>>
    /\ ppc' = "done"
    /\ UNCHANGED p

\* lines 14-20
Enter ==
    /\ ppc = "enter"
    /\ IF ~expectCurrent(p, TokenLeftBrace)
       THEN ReturnError(NewUnexpectedTokenError(peek(p), TokenLeftBrace))
       ELSE /\ \E t \in TokensAt(p.current + 2) : p' = nextToken(p, t)
            /\ frames' = Append(frames, Frame(EmptyPairs, <<>>))
            /\ ppc' = "loop"
            /\ UNCHANGED pret
    /\ UNCHANGED lexvars

\* line 22, the loop's test
Loop ==
    /\ ppc = "loop"
    /\ ppc' = IF ~peekTypeIs(p, TokenRightBrace) /\ ~peekTypeIs(p, TokenEOF)
              THEN "key" ELSE "close"
    /\ UNCHANGED <<p, frames, pret>>
    /\ UNCHANGED lexvars

\* lines 23-28
Key ==
    /\ ppc = "key"
    /\ IF peek(p).Type # TokenString
       THEN ReturnError(NewUnexpectedTokenError(peek(p), TokenString))
       ELSE /\ frames' = SetTop([Top EXCEPT !.key = peek(p).Literal])
            /\ \E t \in TokensAt(p.current + 2) : p' = nextToken(p, t)
            /\ ppc' = "colon"
            /\ UNCHANGED pret
    /\ UNCHANGED lexvars

\* lines 30-33
Colon ==
    /\ ppc = "colon"
    /\ IF ~expectCurrent(p, TokenColon)
       THEN ReturnError(NewUnexpectedTokenError(peek(p), TokenColon))
       ELSE /\ \E t \in TokensAt(p.current + 2) : p' = nextToken(p, t)
            /\ ppc' = "value"
            /\ UNCHANGED <<frames, pret>>
    /\ UNCHANGED lexvars

\* lines 35-40 for a value that is one token: parseValue returns it and
\* moves past it
ValueScalar ==
    /\ ppc = "value"
    /\ IsScalar(peek(p))
    /\ frames' = SetTop([Top EXCEPT
                           !.pairs = PairsInsert(@, Top.key, ScalarValue(peek(p)))])
    /\ \E t \in TokensAt(p.current + 2) : p' = nextToken(p, t)
    /\ ppc' = "comma"
    /\ UNCHANGED pret
    /\ UNCHANGED lexvars

\* line 35 for a left brace: parseValue calls parseObject
ValueObject ==
    /\ ppc = "value"
    /\ peek(p).Type = TokenLeftBrace
    /\ Len(frames) < MaxDepth
    /\ ppc' = "enter"
    /\ UNCHANGED <<p, frames, pret>>
    /\ UNCHANGED lexvars

\* lines 35-38 for any other token: parseValue returns an error
ValueError ==
    /\ ppc = "value"
    /\ ~IsScalar(peek(p))
    /\ peek(p).Type # TokenLeftBrace
    /\ ReturnError(NewUnexpectedTokenError(peek(p), "value"))
    /\ UNCHANGED lexvars

\* lines 42-46
Comma ==
    /\ ppc = "comma"
    /\ IF peekTypeIs(p, TokenComma)
       THEN /\ \E t \in TokensAt(p.current + 2) : p' = nextToken(p, t)
            /\ ppc' = "loop"
       ELSE /\ ppc' = "close"
            /\ UNCHANGED p
    /\ UNCHANGED <<frames, pret>>
    /\ UNCHANGED lexvars

\* lines 49-53; a parseObject that parseValue called returns into line 35
\* of its caller, which inserts the object at line 40
Close ==
    /\ ppc = "close"
    /\ IF ~expectCurrent(p, TokenRightBrace)
       THEN ReturnError(NewUnexpectedTokenError(peek(p), TokenRightBrace))
       ELSE IF Len(frames) = 1
       THEN /\ pret' = [ok |-> TRUE, obj |-> Top.pairs]
            /\ frames' = <<>>
            /\ ppc' = "done"
            /\ UNCHANGED p
       ELSE LET caller == frames[Len(frames) - 1]
            IN /\ frames' = Append(SubSeq(frames, 1, Len(frames) - 2),
                                [caller EXCEPT !.pairs =
                                    PairsInsert(@, caller.key, ObjectValue(Top.pairs))])
               /\ ppc' = "comma"
               /\ UNCHANGED <<p, pret>>
    /\ UNCHANGED lexvars

ParserNext ==
    \/ Enter \/ Loop \/ Key \/ Colon
    \/ ValueScalar \/ ValueObject \/ ValueError
    \/ Comma \/ Close

ParserSpec == ParserInit /\ [][ParserNext]_vars

----------------------------------------------------------------------------
(* Properties of Tokenize *)

input == l.input

Returned == pc = "done"

Succeeded == pc = "done" /\ err = NoErr

Failed == pc = "done" /\ err # NoErr

\* the kind and literal of each token
KindsAndLiterals(toks) ==
    [i \in DOMAIN toks |-> [Type |-> toks[i].Type, Literal |-> toks[i].Literal]]

Types(toks) == [i \in DOMAIN toks |-> toks[i].Type]

WhiteSpaceChars == {Ord(" "), Ord("TAB"), Ord("LF"), Ord("CR")}

PunctuationChars ==
    {Ord("{"), Ord("}"), Ord("["), Ord("]"), Ord(":"), Ord(",")}

Quote == Str(<<"\"">>)

HasQuote(s) == \E i \in DOMAIN s : s[i] = Ord("\"")

\* s with w put after its first k characters
InsertAt(s, k, w) == SubSeq(s, 1, k) \o <<w>> \o SubSeq(s, k + 1, Len(s))

\* Places of s where white space may be put without touching a token: the
\* start, the end and, in an input with no string literal, either side of
\* a punctuation character.
PaddingPlaces(s) ==
    {0, Len(s)} \cup
    (IF HasQuote(s) THEN {}
     ELSE {k \in 0..Len(s) :
             \/ (k >= 1 /\ s[k] \in PunctuationChars)
             \/ (k < Len(s) /\ s[k + 1] \in PunctuationChars)})

\* C3: when Tokenize succeeds on an input, it succeeds, with the same token
\* kinds and literals, on that input with a space, tab, newline or carriage
\* return put before the first token, between two tokens or after the last.
C3_WhitespaceInsensitive ==
    (Succeeded /\ Len(tokens) >= 2) =>
        \A k \in PaddingPlaces(input) : \A w \in WhiteSpaceChars :
            LET r == TokenizeOf(InsertAt(input, k, w), ver)
            IN /\ r.err = NoErr
               /\ KindsAndLiterals(r.tokens) = KindsAndLiterals(tokens)

NumberChars ==
    {Ord("-"), Ord("."), Ord("e"), Ord("E"), Ord("+")}
        \cup {c \in Ord("0")..Ord("9") : TRUE}

IsDigits(s) == Len(s) >= 1 /\ \A i \in DOMAIN s : s[i] \in Ord("0")..Ord("9")

\* ('.' digit+)?
IsFraction(s) == s = <<>> \/ (s[1] = Ord(".") /\ IsDigits(Tail(s)))

\* ([eE] [+-]? digit+)?
IsExponent(s) ==
    \/ s = <<>>
    \/ /\ s[1] \in {Ord("e"), Ord("E")}
       /\ \/ IsDigits(Tail(s))
          \/ (Len(s) >= 2 /\ s[2] \in {Ord("+"), Ord("-")}
                /\ IsDigits(SubSeq(s, 3, Len(s))))

\* -? digit+ ('.' digit+)? ([eE] [+-]? digit+)?
MatchesNumber(s) ==
    /\ s # <<>>
    /\ LET u == IF s[1] = Ord("-") THEN Tail(s) ELSE s
       IN \E i \in 1..Len(u) : \E j \in i..Len(u) :
             /\ IsDigits(SubSeq(u, 1, i))
             /\ IsFraction(SubSeq(u, i + 1, j))
             /\ IsExponent(SubSeq(u, j + 1, Len(u)))

\* C4: on a non-empty input made only of '-', digits, '.', 'e', 'E', '+',
\* Tokenize returns the one number token whose literal is the input,
\* followed by the end-of-input token, if the input matches the number
\* grammar, and an error if it does not.
C4_NumberGrammar ==
    (Returned /\ input # <<>> /\ \A i \in DOMAIN input : input[i] \in NumberChars)
        => IF MatchesNumber(input)
           THEN /\ err = NoErr
                /\ KindsAndLiterals(tokens) =
                      <<[Type |-> TokenNumber, Literal |-> input],
                        [Type |-> TokenEOF, Literal |-> <<>>]>>
           ELSE err # NoErr

\* the character a \uXXXX pair of surrogates hi, lo encodes
SurrogatePairChar(hi, lo) == 65536 + (hi - 55296) * 1024 + (lo - 56320)

\* C5: a string literal holding a high-surrogate escape directly followed
\* by a low-surrogate escape is accepted and its literal is the one
\* character of the pair; a high surrogate followed by anything else, and a
\* low surrogate preceded by anything else, make Tokenize return an error.
C5_SurrogatePairs ==
    Returned =>
        /\ input = Quote \o HighEsc \o LowEsc \o Quote
              => /\ err = NoErr
                 /\ KindsAndLiterals(tokens) =
                       <<[Type |-> TokenString,
                          Literal |-> <<SurrogatePairChar(55297, 56322)>>],
                         [Type |-> TokenEOF, Literal |-> <<>>]>>
        /\ \A x \in (StrPieces \ {LowEsc}) \cup {<<>>} :
              input = Quote \o HighEsc \o x \o Quote => err # NoErr
        /\ \A x \in (StrPieces \ {HighEsc}) \cup {<<>>} :
              input = Quote \o x \o LowEsc \o Quote => err # NoErr

KeyWords ==
    {Str(<<"t", "r", "u", "e">>), Str(<<"f", "a", "l", "s", "e">>),
     Str(<<"n", "u", "l", "l">>)}

KeyWordType(w) ==
    CASE w[1] = Ord("t") -> TokenTrue
      [] w[1] = Ord("f") -> TokenFalse
      [] OTHER -> TokenNull

IsLetters(s) ==
    \A i \in DOMAIN s :
        s[i] \in Ord("a")..Ord("z") \/ s[i] \in Ord("A")..Ord("Z")

\* C6: the input true, false or null gives the keyword token (and the
\* end-of-input token); any other run of letters that starts with t, f or n
\* gives an error.
C6_ExactKeywords ==
    Returned =>
        /\ input \in KeyWords
              => /\ err = NoErr
                 /\ KindsAndLiterals(tokens) =
                       <<[Type |-> KeyWordType(input), Literal |-> input],
                         [Type |-> TokenEOF, Literal |-> <<>>]>>
        /\ (/\ input # <<>>
            /\ IsLetters(input)
            /\ input[1] \in {Ord("t"), Ord("f"), Ord("n")}
            /\ input \notin KeyWords) => err # NoErr

\* the 1-based line and column of character i of s
LineOf(s, i) == 1 + Cardinality({j \in 1..(i - 1) : s[j] = Ord("LF")})

ColumnOf(s, i) ==
    LET breaks == {j \in 1..(i - 1) : s[j] = Ord("LF")}
    IN i - (IF breaks = {} THEN 0
            ELSE CHOOSE j \in breaks : \A k \in breaks : k <= j)

\* the characters a token of the type may start with
StartsToken(type, c) ==
    CASE type \in {TokenLeftBrace, TokenRightBrace, TokenLeftBracket,
                   TokenRightBracket, TokenColon, TokenComma} -> <<c>> = Str(<<type>>)
      [] type = TokenString -> c = Ord("\"")
      [] type = TokenNumber -> c = Ord("-") \/ c \in Ord("0")..Ord("9")
      [] type = TokenTrue -> c = Ord("t")
      [] type = TokenFalse -> c = Ord("f")
      [] type = TokenNull -> c = Ord("n")
      [] OTHER -> FALSE

\* the token has a line and a column, and they are those of character i
CarriesPositionOf(tok, s, i) ==
    /\ {"Line", "Column"} \subseteq DOMAIN tok
    /\ tok.Line = LineOf(s, i)
    /\ tok.Column = ColumnOf(s, i)

\* C7: every token but the end-of-input token of a successful Tokenize
\* carries the 1-based line and column of a character of the input with
\* which a token of its type starts (for a string the quote, for a number a
\* digit or the minus sign), the tokens' characters being in input order.
C7_TokenPositions ==
    Succeeded =>
        \E at \in [1..(Len(tokens) - 1) -> 1..Len(input)] :
            /\ \A k \in DOMAIN at :
                  /\ CarriesPositionOf(tokens[k], input, at[k])
                  /\ StartsToken(tokens[k].Type, input[at[k]])
            /\ \A j, k \in DOMAIN at : j < k => at[j] < at[k]

PunctuationOf(s) == SelectSeq(s, LAMBDA c : c \in PunctuationChars)

PunctuationTokens(toks) ==
    SelectSeq(Types(toks),
              LAMBDA t : t \in {TokenLeftBrace, TokenRightBrace,
                                TokenLeftBracket, TokenRightBracket,
                                TokenColon, TokenComma})

PunctuationType(c) ==
    CASE c = Ord("{") -> TokenLeftBrace
      [] c = Ord("}") -> TokenRightBrace
      [] c = Ord("[") -> TokenLeftBracket
      [] c = Ord("]") -> TokenRightBracket
      [] c = Ord(":") -> TokenColon
      [] OTHER -> TokenComma

\* C8: when Tokenize succeeds on an input with no string literal, the
\* punctuation tokens are, in order, those of the input's punctuation
\* characters, and the one end-of-input token is the last token.
C8_PunctuationInOrder ==
    (Succeeded /\ ~HasQuote(input)) =>
        /\ PunctuationTokens(tokens) =
              [i \in DOMAIN PunctuationOf(input) |->
                  PunctuationType(PunctuationOf(input)[i])]
        /\ tokens # <<>>
        /\ \A i \in DOMAIN tokens :
              tokens[i].Type = TokenEOF <=> i = Len(tokens)

\* the characters that start a token or are white space
TokenStartChars ==
    PunctuationChars \cup WhiteSpaceChars
        \cup {Ord("\""), Ord("t"), Ord("f"), Ord("n"), Ord("-")}
        \cup {c \in Ord("0")..Ord("9") : TRUE}

\* C9: on an input that is punctuation and white space up to a character
\* that starts no token, Tokenize returns an error that reports that
\* character and its line and column.
C9_UnknownCharacterPosition ==
    Returned =>
        \A i \in DOMAIN input :
            (/\ input[i] \notin TokenStartChars
             /\ \A j \in 1..(i - 1) :
                   input[j] \in PunctuationChars \cup WhiteSpaceChars)
            => /\ err # NoErr
               /\ {"char", "line", "column"} \subseteq DOMAIN err
               /\ err.char = input[i]
               /\ err.line = LineOf(input, i)
               /\ err.column = ColumnOf(input, i)

\* C10: Tokenize returns on every input, and until it does every pass of
\* its loop and of readString's loop moves the read position forward; the
\* read position never moves back.
C10_TokenizeTerminates ==
    /\ <>(pc = "done")
    /\ [][/\ l'.readPosition >= l.readPosition
          /\ (pc' # "done" => l'.readPosition > l.readPosition)]_vars

\* Tokenize has returned its tokens after passes of its loop and of
\* readString's loop
C10_Witness ==
    /\ Succeeded
    /\ ver = 2
    /\ Len(tokens) >= 2
    /\ \E i \in DOMAIN tokens :
          tokens[i].Type = TokenString /\ Len(tokens[i].Literal) >= 2

----------------------------------------------------------------------------
(* Properties of parseObject *)

ParseReturned == ppc = "done"

Accepted == ppc = "done" /\ pret.ok

\* the number of objects open at token i: in a sequence parseObject accepts
\* no right brace stands before the last token
Depth(toks, i) ==
    Cardinality({j \in 1..(i - 1) : toks[j].Type = TokenLeftBrace})

\* the places of the keys of the object at depth d: a string token with a
\* colon after it
KeysAt(toks, d) ==
    {i \in 1..(Len(toks) - 2) :
        /\ toks[i].Type = TokenString
        /\ toks[i + 1].Type = TokenColon
        /\ Depth(toks, i) = d}

\* the last place in is where key stands
LastOf(toks, is, key) ==
    CHOOSE i \in is :
        /\ toks[i].Literal = key
        /\ \A j \in is : toks[j].Literal = key => j <= i

\* the object the input describes at depth d: each key with the value that
\* follows its last occurrence
RECURSIVE ObjectOf(_, _)
ObjectOf(toks, d) ==
    LET is == KeysAt(toks, d)
    IN [key \in {toks[i].Literal : i \in is} |->
          LET v == toks[LastOf(toks, is, key) + 2]
          IN IF v.Type = TokenLeftBrace
             THEN ObjectValue(ObjectOf(toks, d + 1))
             ELSE ScalarValue(v)]

\* a comma of the input has the right brace next to it
HasTrailingComma(toks) ==
    \E i \in 1..(Len(toks) - 1) :
        toks[i].Type = TokenComma /\ toks[i + 1].Type = TokenRightBrace

\* C1: parseObject returns an error, and no object, for a token sequence
\* in which a comma inside the object has the right brace next to it.
C1_TrailingCommaRejected ==
    (ParseReturned /\ HasTrailingComma(p.tokens)) => ~pret.ok

====
